---- MODULE Spec2Model ----
(***************************************************************************)
(* libctru, include/3ds/os.h: the tick counter (osTickCounterStart,        *)
(* osTickCounterUpdate, osTickCounterRead), the shared-page accessors, the *)
(* version macros and the linear-memory address conversion.                *)
(*                                                                         *)
(* u32 and u64 values are kept at their full width as little-endian words  *)
(* of 16-bit limbs (2 limbs for u32, 4 for u64), because TLC's integers    *)
(* are narrower than 2^32.  A double is a pair <<m, e>> standing           *)
(* for m * 2^e with m a 53-bit significand (2^52 <= m < 2^53), or zero.    *)
(***************************************************************************)
EXTENDS Integers, Sequences, FiniteSets, TLC

-----------------------------------------------------------------------------
(* Fixed-width unsigned arithmetic (C's u32 / u64).                        *)

LimbBits == 16

LimbBase == 2^LimbBits

U32Limbs == 2

U64Limbs == 4

\* A word given limb by limb, as the tuple of its limbs.
Word(f) == f \o <<>>

\* The n-limb word of a small natural v (v < 2^31).
NatToLimbs(v, n) ==
  Word([i \in 1..n |-> IF i = 1 THEN v % LimbBase
                       ELSE IF i = 2 THEN v \div LimbBase
                       ELSE 0])

NatToU32(v) == NatToLimbs(v, U32Limbs)

NatToU64(v) == NatToLimbs(v, U64Limbs)

ZeroLimbs(n) == Word([i \in 1..n |-> 0])

MaxLimbs(n) == Word([i \in 1..n |-> LimbBase - 1])

RECURSIVE AddFrom(_, _, _, _)
AddFrom(a, b, i, carry) ==
  IF i > Len(a) THEN <<>>
  ELSE LET s == a[i] + b[i] + carry
       IN  <<s % LimbBase>> \o AddFrom(a, b, i + 1, s \div LimbBase)

\* a + b modulo 2^(16 * Len(a)): unsigned addition of C.
Add(a, b) == AddFrom(a, b, 1, 0)

RECURSIVE CarryFrom(_, _, _, _)
CarryFrom(a, b, i, carry) ==
  IF i > Len(a) THEN carry
  ELSE CarryFrom(a, b, i + 1, (a[i] + b[i] + carry) \div LimbBase)

\* 1 when a + b does not fit the width, 0 when it does.
AddCarry(a, b) == CarryFrom(a, b, 1, 0)

RECURSIVE SubFrom(_, _, _, _)
SubFrom(a, b, i, borrow) ==
  IF i > Len(a) THEN <<>>
  ELSE LET d == a[i] - b[i] - borrow
       IN  <<(d + LimbBase) % LimbBase>>
             \o SubFrom(a, b, i + 1, IF d < 0 THEN 1 ELSE 0)

\* a - b modulo 2^(16 * Len(a)): unsigned subtraction of C.
Sub(a, b) == SubFrom(a, b, 1, 0)

RECURSIVE LessFrom(_, _, _)
LessFrom(a, b, i) ==
  IF i = 0 THEN FALSE
  ELSE IF a[i] # b[i] THEN a[i] < b[i]
  ELSE LessFrom(a, b, i - 1)

\* a < b as unsigned numbers.
Less(a, b) == LessFrom(a, b, Len(a))

LessEq(a, b) == ~Less(b, a)

\* x << k and x >> k (logical) for 0 <= k < width, width kept: whole limbs
\* first, then the remaining k % 16 bits with the bits carried across limbs.
Shl(x, k) ==
  LET w == k \div LimbBits
      f == 2^(k % LimbBits)
      l == Word([i \in 1..Len(x) |-> IF i > w THEN x[i - w] ELSE 0])
  IN  Word([i \in 1..Len(x) |->
         ((l[i] * f) % LimbBase) + (IF i > 1 THEN (l[i - 1] * f) \div LimbBase ELSE 0)])

Shr(x, k) ==
  LET w == k \div LimbBits
      f == 2^(k % LimbBits)
      g == 2^(LimbBits - (k % LimbBits))
      l == Word([i \in 1..Len(x) |-> IF i + w <= Len(x) THEN x[i + w] ELSE 0])
  IN  Word([i \in 1..Len(x) |->
         (l[i] \div f) + (IF i < Len(x) THEN (l[i + 1] % f) * g ELSE 0)])

\* Bit i (0 = least significant) of x.
Bit(x, i) == (x[(i \div LimbBits) + 1] \div 2^(i % LimbBits)) % 2

RECURSIVE And16(_, _, _)
And16(a, b, n) ==
  IF n = 0 THEN 0
  ELSE (a % 2) * (b % 2) + 2 * And16(a \div 2, b \div 2, n - 1)

BitAnd(a, b) == Word([i \in 1..Len(a) |-> And16(a[i], b[i], LimbBits)])

\* a | b  =  a + b - (a & b), limb by limb.
BitOr(a, b) ==
  Word([i \in 1..Len(a) |-> a[i] + b[i] - And16(a[i], b[i], LimbBits)])

BitNot(a) == Word([i \in 1..Len(a) |-> LimbBase - 1 - a[i]])

RECURSIVE BitLenFrom(_, _)
BitLenFrom(x, i) ==
  IF i < 0 THEN 0 ELSE IF Bit(x, i) = 1 THEN i + 1 ELSE BitLenFrom(x, i - 1)

\* Number of significant bits of x (0 for zero).
BitLen(x) == BitLenFrom(x, LimbBits * Len(x) - 1)

\* The low n limbs of x: a conversion to a narrower unsigned type.
Truncate(x, n) == Word([i \in 1..n |-> x[i]])

\* x widened to n limbs with zeros: a conversion to a wider unsigned type.
Widen(x, n) == Word([i \in 1..n |-> IF i <= Len(x) THEN x[i] ELSE 0])

-----------------------------------------------------------------------------
(* IEEE-754 binary64 arithmetic on non-negative finite values, round to    *)
(* nearest, ties to even.  A double is <<m, e>>, standing for m * 2^e,     *)
(* with m a 53-bit significand (2^52 <= m < 2^53); zero is <<0, 0>>.       *)
(* Significands, and the 54-bit intermediate values of rounding, are kept  *)
(* as <<hi, lo>>, two halves of 27 bits each.                              *)

SignificandBits == 53

HalfBits == 27

HalfBase == 2^HalfBits

SigZero == <<0, 0>>

DoubleZero == <<SigZero, 0>>

\* The low 54 bits of a u64 as a significand: bits 0..26 and bits 27..53.
U64ToSig(x) ==
  <<(x[2] \div 2^(HalfBits - LimbBits))
      + x[3] * 2^(2 * LimbBits - HalfBits)
      + (x[4] % 2^(2 * HalfBits - 3 * LimbBits)) * 2^(3 * LimbBits - HalfBits),
    x[1] + (x[2] % 2^(HalfBits - LimbBits)) * LimbBase>>

\* 2s + b for a bit b.
SigTwice(s, b) ==
  LET lo == 2 * s[2] + b
  IN  <<2 * s[1] + (lo \div HalfBase), lo % HalfBase>>

SigLess(a, b) == a[1] < b[1] \/ (a[1] = b[1] /\ a[2] < b[2])

\* a - b for a >= b.
SigSub(a, b) ==
  IF a[2] < b[2] THEN <<a[1] - b[1] - 1, a[2] - b[2] + HalfBase>>
  ELSE <<a[1] - b[1], a[2] - b[2]>>

SigHalf(s) == <<s[1] \div 2, (s[2] \div 2) + (s[1] % 2) * (HalfBase \div 2)>>

SigInc(s) == IF s[2] + 1 = HalfBase THEN <<s[1] + 1, 0>> ELSE <<s[1], s[2] + 1>>

SigOdd(s) == s[2] % 2 = 1

\* q (54 significant bits: the significand and a round bit) and a sticky
\* flag for what lies below, at exponent e, rounded to the nearest double.
RoundNearestEven(q, sticky, e) ==
  LET m  == SigHalf(q)
      up == SigOdd(q) /\ (sticky \/ SigOdd(m))
      r  == IF up THEN SigInc(m) ELSE m
  IN  IF r[1] >= 2^(SignificandBits - HalfBits)
        THEN <<SigHalf(r), e + 2>>
        ELSE <<r, e + 1>>

\* (double) x for an unsigned 64-bit x.
U64ToDouble(x) ==
  LET n == BitLen(x)
  IN  IF n = 0 THEN DoubleZero
      ELSE IF n <= SignificandBits
        THEN <<U64ToSig(Shl(x, SignificandBits - n)), n - SignificandBits>>
      ELSE LET s      == n - SignificandBits - 1
               q      == Shr(x, s)
               sticky == Shl(q, s) # x
           IN  RoundNearestEven(U64ToSig(q), sticky, s)

\* One step of the restoring binary long division by mb.  The state
\* s = <<q, r, i>> holds the quotient collected so far, the remainder and the
\* number of quotient bits still to produce: the remainder is doubled, mb
\* is taken off when it fits, and q becomes 2q + 1 or 2q.
DivStep(mb, s) ==
  LET r2 == SigTwice(s[2], 0)
  IN  IF SigLess(r2, mb)
        THEN <<SigTwice(s[1], 0), r2, s[3] - 1>>
        ELSE <<SigTwice(s[1], 1), SigSub(r2, mb), s[3] - 1>>

RECURSIVE DivLoop(_, _)
DivLoop(mb, s) == IF s[3] = 0 THEN s ELSE DivLoop(mb, DivStep(mb, s))

\* a / b for doubles a >= 0, b > 0.  Both significands have 53 bits, so the
\* integer part of ma / mb is 0 or 1; k more quotient bits make 54 in all.
DoubleDiv(a, b) ==
  IF a = DoubleZero THEN DoubleZero
  ELSE LET ma == a[1]
           mb == b[1]
           k  == IF SigLess(ma, mb) THEN SignificandBits + 1 ELSE SignificandBits
           s0 == IF SigLess(ma, mb) THEN <<SigZero, ma, k>>
                 ELSE <<<<0, 1>>, SigSub(ma, mb), k>>
           d  == DivLoop(mb, s0)
       IN  RoundNearestEven(d[1], d[2] # SigZero, a[2] - b[2] - k)

-----------------------------------------------------------------------------
(* Clock constants.                                                        *)

SYSCLOCK_SOC == 16756991

SYSCLOCK_ARM9 == SYSCLOCK_SOC * 8

SYSCLOCK_ARM11 == SYSCLOCK_ARM9 * 2

\* (double) v for a non-negative int v.
IntToDouble(v) == U64ToDouble(NatToU64(v))

\* A value that is not CPU_TICKS_PER_MSEC: the ticks of the ARM9 clock.
Arm9TicksPerMsec == DoubleDiv(IntToDouble(SYSCLOCK_ARM9), IntToDouble(1000))

\* SYSCLOCK_ARM11 / 1000.0, a double constant.
CPU_TICKS_PER_MSEC == DoubleDiv(IntToDouble(SYSCLOCK_ARM11), IntToDouble(1000))

-----------------------------------------------------------------------------
(* The tick counter.                                                       *)

VARIABLES
  tick,        \* the value svcGetSystemTick() returns now (u64, free running)
  cnt,         \* the TickCounter: [elapsed, reference]
  reads,       \* the osTickCounterRead calls since the last update (the last
               \* two of them): what each returned, and which of start and
               \* update had been called last at the time
  op,          \* the last step: "init", "start", "update", "read", "tick"
  pre,         \* cnt as it was before the last step
  lastCall,    \* the last of start/update called: "none", "start", "update"
  prevCall,    \* the start/update call before that one
  sample,      \* the tick value the last start/update call sampled
  prevSample,  \* the tick value the call before it sampled
  passed,      \* ticks the source advanced since the last start/update call
  measured,    \* passed, as it was when the last update sampled; -1 when that
               \* update had no start or update before it
  advances,    \* number of tick steps taken
  \* Two execution contexts inside osTickCounterUpdate at once:
  inst,        \* the TickCounter instances, by number
  target,      \* the instance each context passes to osTickCounterUpdate
  pc,          \* where each context is: "sample", "elapsed", "reference", "done"
  now,         \* each context's local variable now
  inst0,       \* the instances as they were before the two calls
  sampledAt,   \* ticks the source had advanced when each context sampled it
  ticked,      \* ticks the source has advanced since the two calls began
  \* The accessors and conversions, one call at a time:
  call         \* the last call: the function, its inputs and what it returned

clockVars == <<tick, advances>>

counterVars == <<cnt, reads, op, pre, lastCall, prevCall, sample, prevSample,
                 passed, measured>>

raceVars == <<inst, target, pc, now, inst0, sampledAt, ticked>>

vars == <<clockVars, counterVars, raceVars, call>>

\* Largest advance of the tick source in one step, and number of such steps.
MaxStep == 2

MaxAdvances == 2

U64Zero == ZeroLimbs(U64Limbs)

U64Max == MaxLimbs(U64Limbs)

\* Tick values the runs start from: just after power-on, just below a carry
\* out of the low 32 bits, and just below the 2^64 wrap.
InitTicks ==
  {NatToU64(1), <<LimbBase - 1, LimbBase - 1, 0, 0>>, Sub(U64Max, NatToU64(1))}

\* What the fields of a TickCounter nobody initialised may hold.
Uninitialized == {U64Zero, U64Max}

TickCounter == [elapsed : Uninitialized, reference : Uninitialized]

\* Variants of osTickCounterStart that are not the source's: one that also
\* clears elapsed, and one that measures as osTickCounterUpdate does.
StartClearingElapsed(c, systemTick) ==
  [elapsed |-> U64Zero, reference |-> systemTick]

StartMeasuring(c, systemTick) ==
  [elapsed |-> Sub(systemTick, c.reference), reference |-> systemTick]

\* cnt->reference = svcGetSystemTick();
osTickCounterStart(c, systemTick) == [c EXCEPT !.reference = systemTick]

\* Variants of the first assignment of osTickCounterUpdate that are not the
\* source's: elapsed accumulating over the updates (+=), and a subtraction
\* that stops at zero instead of wrapping.
UpdateElapsedAccumulating(c, n) ==
  [c EXCEPT !.elapsed = Add(c.elapsed, Sub(n, c.reference))]

UpdateElapsedSaturating(c, n) ==
  [c EXCEPT !.elapsed = IF Less(n, c.reference) THEN U64Zero
                        ELSE Sub(n, c.reference)]

\* cnt->elapsed = now - cnt->reference;
UpdateElapsed(c, n) == [c EXCEPT !.elapsed = Sub(n, c.reference)]

\* A variant of the second assignment that is not the source's: the new
\* reference is never stored.
UpdateReferenceLost(c, n) == c

\* cnt->reference = now;
UpdateReference(c, n) == [c EXCEPT !.reference = n]

\* u64 now = svcGetSystemTick(); then the two assignments in order.
osTickCounterUpdate(c, systemTick) ==
  UpdateReference(UpdateElapsed(c, systemTick), systemTick)

\* cnt->elapsed / CPU_TICKS_PER_MSEC, in double arithmetic.
osTickCounterRead(c) == DoubleDiv(U64ToDouble(c.elapsed), CPU_TICKS_PER_MSEC)

\* The variables of the two-context runs and of the single calls, at rest.
RaceIdle ==
  /\ inst = <<>> /\ target = <<>> /\ pc = <<>> /\ now = <<>>
  /\ inst0 = <<>> /\ sampledAt = <<>> /\ ticked = 0

CallIdle == call = [fn |-> "none", arg |-> <<>>, ret |-> <<>>, returned |-> FALSE]

TickInit ==
  /\ RaceIdle /\ CallIdle
  /\ tick \in InitTicks
  /\ cnt \in TickCounter
  /\ reads = <<>>
  /\ op = "init"
  /\ pre = cnt
  /\ lastCall = "none"
  /\ prevCall = "none"
  /\ sample = U64Zero
  /\ prevSample = U64Zero
  /\ passed = 0
  /\ measured = -1
  /\ advances = 0

\* The tick source runs on: it only moves forward, modulo 2^64.
TickAdvance ==
  /\ advances < MaxAdvances
  /\ \E d \in 1..MaxStep :
       /\ tick' = Add(tick, NatToU64(d))
       /\ passed' = passed + d
  /\ advances' = advances + 1
  /\ op' = "tick"
  /\ pre' = cnt
  /\ UNCHANGED <<cnt, reads, lastCall, prevCall, sample, prevSample, measured>>
  /\ UNCHANGED <<raceVars, call>>

Start ==
  /\ cnt' = osTickCounterStart(cnt, tick)
  /\ op' = "start"
  /\ pre' = cnt
  /\ lastCall' = "start"
  /\ prevCall' = lastCall
  /\ sample' = tick
  /\ prevSample' = sample
  /\ passed' = 0
  /\ UNCHANGED <<tick, reads, measured, advances>>
  /\ UNCHANGED <<raceVars, call>>

Update ==
  /\ cnt' = osTickCounterUpdate(cnt, tick)
  /\ op' = "update"
  /\ pre' = cnt
  /\ lastCall' = "update"
  /\ prevCall' = lastCall
  /\ sample' = tick
  /\ prevSample' = sample
  /\ measured' = IF lastCall = "none" THEN -1 ELSE passed
  /\ passed' = 0
  /\ reads' = <<>>
  /\ UNCHANGED <<tick, advances>>
  /\ UNCHANGED <<raceVars, call>>

Read ==
  /\ LET r == [val |-> osTickCounterRead(cnt), after |-> lastCall]
     IN  reads' = IF reads = <<>> THEN <<r>> ELSE <<reads[Len(reads)], r>>
  /\ op' = "read"
  /\ pre' = cnt
  /\ UNCHANGED <<tick, cnt, lastCall, prevCall, sample, prevSample, passed,
                 measured, advances>>
  /\ UNCHANGED <<raceVars, call>>

TickNext == TickAdvance \/ Start \/ Update \/ Read

Spec == TickInit /\ [][TickNext]_vars

-----------------------------------------------------------------------------
(* Properties of the tick counter.                                         *)

\* C1: an update preceded by a start or an update, with the tick source not
\* having wrapped in between, leaves elapsed = (its own sample) - (the
\* sample of the call before it), which is the number of ticks that passed
\* in that interval alone (0 when none passed), and reference = its sample.
C1_UpdateMeasuresOwnInterval ==
  (lastCall = "update" /\ prevCall # "none" /\ LessEq(prevSample, sample))
    => /\ cnt.elapsed = Sub(sample, prevSample)
       /\ cnt.elapsed = NatToU64(measured)
       /\ cnt.reference = sample

\* Two updates in a row measured intervals of different lengths.
C1_Witness ==
  /\ op = "update" /\ prevCall = "update"
  /\ LessEq(prevSample, sample)
  /\ measured = 1
  /\ pre.elapsed = NatToU64(2)
  /\ cnt.elapsed = NatToU64(1)

\* C2: when the sample of an update is numerically below the stored
\* reference (the source wrapped past 2^64), elapsed is still the number of
\* ticks that passed, (now - reference) mod 2^64.
C2_WraparoundElapsed ==
  (lastCall = "update" /\ prevCall # "none" /\ Less(sample, prevSample))
    => /\ cnt.elapsed = NatToU64(measured)
       /\ Add(prevSample, cnt.elapsed) = sample

\* An update sampled a wrapped tick value after ticks had passed.
C2_Witness ==
  /\ op = "update" /\ prevCall # "none"
  /\ Less(sample, prevSample)
  /\ measured > 1
  /\ cnt.elapsed = NatToU64(measured)

\* C4: a read changes no field of the counter; as long as no update
\* follows it, what it returned is what a read of the current elapsed alone
\* returns, whatever reference and the tick source have become; and two
\* reads with no update between them return the same value.
C4_ReadPure ==
  /\ op = "read" => cnt = pre
  /\ \A i \in DOMAIN reads :
       reads[i].val = osTickCounterRead([elapsed |-> cnt.elapsed,
                                         reference |-> U64Zero])
  /\ Len(reads) = 2 => reads[1].val = reads[2].val

\* Two reads of a measured, non-zero elapsed with no update between them:
\* one before and one after a start that replaced reference at a later tick.
C4_Witness ==
  /\ op = "read" /\ Len(reads) = 2
  /\ measured > 0
  /\ reads[2].val # DoubleZero
  /\ reads[1].after = "update" /\ reads[2].after = "start"
  /\ sample # prevSample

\* C8: a start leaves elapsed as it was and sets reference to the tick it
\* samples; after update then start, elapsed is still the interval that
\* update measured; and an update that follows a start measures from the
\* start's sample.
C8_StartOnlyReference ==
  /\ op = "start" => (cnt.elapsed = pre.elapsed /\ cnt.reference = tick)
  /\ lastCall = "start" => cnt.reference = sample
  /\ (lastCall = "start" /\ measured >= 0) => cnt.elapsed = NatToU64(measured)
  /\ (lastCall = "update" /\ prevCall = "start")
       => /\ cnt.elapsed = Sub(sample, prevSample)
          /\ cnt.elapsed = NatToU64(measured)

\* A start after an update that measured a non-zero interval, at a later
\* tick than that update's.
C8_Witness ==
  /\ op = "start" /\ prevCall = "update"
  /\ measured > 0
  /\ cnt.elapsed = NatToU64(measured)
  /\ cnt.reference # pre.reference

-----------------------------------------------------------------------------
(* Two execution contexts, each inside one call of osTickCounterUpdate,    *)
(* with no synchronisation: the three statements of the function are the   *)
(* steps, and the steps of the two calls interleave freely.  Both contexts *)
(* are handed the same instance, or each its own.                          *)

Contexts == {1, 2}

CounterIdle ==
  /\ cnt = <<>> /\ reads = <<>> /\ op = "init" /\ pre = <<>>
  /\ lastCall = "none" /\ prevCall = "none"
  /\ sample = U64Zero /\ prevSample = U64Zero /\ passed = 0 /\ measured = -1

RaceInit ==
  /\ CounterIdle /\ CallIdle
  /\ tick \in InitTicks
  /\ advances = 0
  \* every instance has been started, at the current tick
  /\ inst \in [Contexts -> {osTickCounterStart(c, tick) : c \in TickCounter}]
  /\ target \in {[c \in Contexts |-> 1], [c \in Contexts |-> c]}
  /\ pc = [c \in Contexts |-> "sample"]
  /\ now = [c \in Contexts |-> U64Zero]
  /\ inst0 = inst
  /\ sampledAt = [c \in Contexts |-> 0]
  /\ ticked = 0

RaceTick ==
  /\ advances < MaxAdvances
  /\ \E d \in 1..MaxStep :
       /\ tick' = Add(tick, NatToU64(d))
       /\ ticked' = ticked + d
  /\ advances' = advances + 1
  /\ UNCHANGED <<inst, target, pc, now, inst0, sampledAt>>
  /\ UNCHANGED <<counterVars, call>>

\* u64 now = svcGetSystemTick();
SampleTick(c) ==
  /\ pc[c] = "sample"
  /\ now' = [now EXCEPT ![c] = tick]
  /\ sampledAt' = [sampledAt EXCEPT ![c] = ticked]
  /\ pc' = [pc EXCEPT ![c] = "elapsed"]
  /\ UNCHANGED <<inst, target, inst0, ticked>>
  /\ UNCHANGED <<clockVars, counterVars, call>>

\* cnt->elapsed = now - cnt->reference;
WriteElapsed(c) ==
  /\ pc[c] = "elapsed"
  /\ inst' = [inst EXCEPT ![target[c]] = UpdateElapsed(@, now[c])]
  /\ pc' = [pc EXCEPT ![c] = "reference"]
  /\ UNCHANGED <<target, now, inst0, sampledAt, ticked>>
  /\ UNCHANGED <<clockVars, counterVars, call>>

\* cnt->reference = now;
WriteReference(c) ==
  /\ pc[c] = "reference"
  /\ inst' = [inst EXCEPT ![target[c]] = UpdateReference(@, now[c])]
  /\ pc' = [pc EXCEPT ![c] = "done"]
  /\ UNCHANGED <<target, now, inst0, sampledAt, ticked>>
  /\ UNCHANGED <<clockVars, counterVars, call>>

RaceNext ==
  \/ RaceTick
  \/ \E c \in Contexts : SampleTick(c)
  \/ \E c \in Contexts : WriteElapsed(c)
  \/ \E c \in Contexts : WriteReference(c)

RaceSpec == RaceInit /\ [][RaceNext]_vars

BothDone == \A c \in Contexts : pc[c] = "done"

SameInstance == target[1] = target[2]

\* What the shared instance holds after the two calls run one after the
\* other, the call of context a first: each call samples the tick source
\* when it runs, so a's sample is not the later one.
SerialResults ==
  {osTickCounterUpdate(osTickCounterUpdate(inst0[1], now[o[1]]), now[o[2]]) :
     o \in {p \in {<<1, 2>>, <<2, 1>>} : sampledAt[p[1]] <= sampledAt[p[2]]}}

\* C5: with one instance per context, whatever the interleaving, each
\* instance ends as its own call alone leaves it: elapsed the ticks that
\* passed between its start and its call's sample, reference that sample.
\* (With one instance for both, C5_Witness is a reachable end state that no
\* serial order of the two calls produces.)
C5_OwnInstanceSerial ==
  (BothDone /\ ~SameInstance)
    => \A c \in Contexts :
         /\ inst[c].elapsed = NatToU64(sampledAt[c])
         /\ inst[c].reference = now[c]
         /\ now[c] = Add(inst0[c].reference, NatToU64(sampledAt[c]))
         /\ inst[c] = osTickCounterUpdate(inst0[c], now[c])

\* Both contexts updated the same instance, and it ends in a state that
\* differs from the result of both serial orders: reference holds the older
\* of the two samples.
C5_Witness ==
  /\ BothDone /\ SameInstance
  /\ inst[1] \notin SerialResults
  /\ \E c \in Contexts : sampledAt[c] < sampledAt[3 - c] /\ inst[1].reference = now[c]

-----------------------------------------------------------------------------
(* Version macros, the shared-page accessors, the memory-region queries    *)
(* and the linear-memory address conversion.  Each is a function of its    *)
(* argument and of the words it reads: the configuration memory and the    *)
(* shared page are a function from address to the value stored there.      *)

U32Zero == ZeroLimbs(U32Limbs)

\* (((major)<<24)|((minor)<<16)|((revision)<<8)), as a 32-bit unsigned value.
SYSTEM_VERSION(major, minor, revision) ==
  BitOr(BitOr(Shl(NatToU32(major), 24), Shl(NatToU32(minor), 16)),
        Shl(NatToU32(revision), 8))

\* ((version) >>24)
GET_VERSION_MAJOR(version) == Shr(version, 24)

\* A variant that is not the source's: the minor version without its mask.
MinorUnmasked(version) == Shr(version, 16)

\* (((version)>>16)&0xFF)
GET_VERSION_MINOR(version) == BitAnd(Shr(version, 16), NatToU32(\HFF))

\* (((version)>> 8)&0xFF)
GET_VERSION_REVISION(version) == BitAnd(Shr(version, 8), NatToU32(\HFF))

OS_OLD_FCRAM_VADDR == \H14000000

OS_OLD_FCRAM_SIZE == \H8000000

\* A value that is not OS_FCRAM_VADDR: the physical address of the mapping.
OS_FCRAM_PADDR == \H20000000

OS_FCRAM_VADDR == \H30000000

OS_FCRAM_SIZE == \H10000000

\* base <= addr < base + size, for a range that ends at or below 2^31.
InRange(addr, base, size) ==
  LessEq(NatToU32(base), addr) /\ Less(addr, NatToU32(base + size))

\* The address in the 0x30* range that corresponds to an address in the
\* old 0x14* range, the address itself when it is in the new range already,
\* and 0 outside both.
osConvertOldLINEARMemToNew(vaddr) ==
  IF InRange(vaddr, OS_FCRAM_VADDR, OS_FCRAM_SIZE) THEN vaddr
  ELSE IF InRange(vaddr, OS_OLD_FCRAM_VADDR, OS_OLD_FCRAM_SIZE)
    THEN Add(vaddr, NatToU32(OS_FCRAM_VADDR - OS_OLD_FCRAM_VADDR))
  ELSE U32Zero

FirmVersionAddr == \H1FF80060

KernelVersionAddr == \H1FF80000

MemRegionSizeAddr == \H1FF80040

WifiStrengthAddr == \H1FF81066

\* (*(vu32*)0x1FF80060) & ~0xFF
osGetFirmVersion(mem) == BitAnd(mem[FirmVersionAddr], BitNot(NatToU32(\HFF)))

\* (*(vu32*)0x1FF80000) & ~0xFF
osGetKernelVersion(mem) == BitAnd(mem[KernelVersionAddr], BitNot(NatToU32(\HFF)))

MEMREGION_ALL == 0

MEMREGION_APPLICATION == 1

MEMREGION_SYSTEM == 2

MEMREGION_BASE == 3

MemRegion == {MEMREGION_ALL, MEMREGION_APPLICATION, MEMREGION_SYSTEM, MEMREGION_BASE}

\* *(vu32*) (0x1FF80040 + (region - 1) * 0x4)
MemRegionSizeWord(mem, region) == mem[MemRegionSizeAddr + (region - 1) * 4]

\* A variant that is not the source's: the total without the BASE region.
SizeWithoutBase(mem, region) ==
  IF region = MEMREGION_ALL
    THEN Add(MemRegionSizeWord(mem, MEMREGION_APPLICATION),
             MemRegionSizeWord(mem, MEMREGION_SYSTEM))
    ELSE MemRegionSizeWord(mem, region)

osGetMemRegionSize(mem, region) ==
  IF region = MEMREGION_ALL
    THEN Add(Add(MemRegionSizeWord(mem, MEMREGION_APPLICATION),
                 MemRegionSizeWord(mem, MEMREGION_SYSTEM)),
             MemRegionSizeWord(mem, MEMREGION_BASE))
    ELSE MemRegionSizeWord(mem, region)

\* svcGetSystemInfo(&mem_used, 0, region); return mem_used;  The s64 the
\* kernel reports for the region is converted to the u32 returned.
osGetMemRegionUsed(systemInfo, region) == Truncate(systemInfo[region], U32Limbs)

\* osGetMemRegionSize(region) - osGetMemRegionUsed(region)
osGetMemRegionFree(mem, systemInfo, region) ==
  Sub(osGetMemRegionSize(mem, region), osGetMemRegionUsed(systemInfo, region))

\* *(vu8*)0x1FF81066
osGetWifiStrength(mem) == mem[WifiStrengthAddr]

\* How far the sampled inputs reach from the boundaries of their range.
AddrMargin == 1

WordMargin == 0

ByteMargin == 0

MaxSeconds == 2

\* The values within margin of each of the given 32-bit values, below and
\* above, modulo 2^32.
Around(points, margin) ==
  UNION {{Add(NatToU32(p), NatToU32(k)), Sub(NatToU32(p), NatToU32(k + 1))} :
           p \in points, k \in 0..margin}

\* Addresses at the ends of the old and the new linear range, at the ends of
\* the address space, and inside each range.
AddrSamples ==
  Around({0, OS_OLD_FCRAM_VADDR, OS_OLD_FCRAM_VADDR + OS_OLD_FCRAM_SIZE,
          OS_FCRAM_VADDR, OS_FCRAM_VADDR + OS_FCRAM_SIZE}, AddrMargin)
    \cup {NatToU32(\H14ABCDEF), NatToU32(\H1BFF0000), NatToU32(\H3789ABCD),
          NatToU32(\H08000000), NatToU32(\H1FF80000)}

\* 32-bit words at both ends of the range, and two version words.
WordSamples ==
  Around({0}, WordMargin) \cup {NatToU32(\H022E0000), NatToU32(\H02370234)}

\* Region sizes: both ends of the range and 64 MiB.
SizeSamples == Around({0}, WordMargin) \cup {NatToU32(\H04000000)}

\* What the kernel may report as used, an s64: small and large values that
\* fit 32 bits, 2^32 + 1, and -1.
UsedSamples ==
  {Widen(w, U64Limbs) : w \in Around({0}, WordMargin)}
    \cup {Widen(NatToU32(\H01000000), U64Limbs), NatToU64(1),
          <<1, 0, 1, 0>>, U64Max}

\* Version components: both ends of 0..255 and both sides of the sign bit.
ByteSamples == (0..ByteMargin) \cup {127, 128} \cup ((255 - ByteMargin)..255)

\* Elapsed ticks: whole seconds of the ARM11 clock, and the ticks around them.
ElapsedSamples ==
  {NatToU64(k * SYSCLOCK_ARM11 + j) : k \in 0..MaxSeconds, j \in 0..1}
    \cup {U64Max, <<0, 0, 0, 1>>}

\* A call about to be made, and the call once it has returned v.
Pending(fn, arg) == [fn |-> fn, arg |-> arg, ret |-> <<>>, returned |-> FALSE]

Return(v) == [call EXCEPT !.ret = v, !.returned = TRUE]

Calling(fn) == call.fn = fn /\ ~call.returned

Returned(fn) == call.fn = fn /\ call.returned

\* The memory a call reads: the words at the addresses it dereferences.
VersionMems(addr) == {(addr :> w) : w \in WordSamples}

MemRegionMems ==
  {(MemRegionSizeAddr :> app) @@ (MemRegionSizeAddr + 4 :> sys)
     @@ (MemRegionSizeAddr + 8 :> base) : app, sys, base \in SizeSamples}

WifiMems == {(WifiStrengthAddr :> b) : b \in 0..255}

\* One call, with its inputs drawn from the samples.
OsInit ==
  /\ CounterIdle /\ RaceIdle
  /\ tick = U64Zero /\ advances = 0
  /\ \/ \E a, b \in ByteSamples \X ByteSamples \X ByteSamples :
          call = Pending("SYSTEM_VERSION", <<a, b>>)
     \/ \E mem \in VersionMems(FirmVersionAddr) :
          call = Pending("osGetFirmVersion", mem)
     \/ \E mem \in VersionMems(KernelVersionAddr) :
          call = Pending("osGetKernelVersion", mem)
     \/ \E vaddr \in AddrSamples :
          call = Pending("osConvertOldLINEARMemToNew", vaddr)
     \/ \E region \in MemRegion, mem \in MemRegionMems, used \in UsedSamples :
          call = Pending("osGetMemRegionFree",
                         [region |-> region, mem |-> mem,
                          systemInfo |-> [r \in MemRegion |-> used]])
     \/ \E mem \in WifiMems :
          call = Pending("osGetWifiStrength", mem)
     \/ \E e \in ElapsedSamples, r \in Uninitialized :
          call = Pending("osTickCounterRead", [elapsed |-> e, reference |-> r])

VersionCall ==
  /\ Calling("SYSTEM_VERSION")
  /\ LET a == call.arg[1]
         b == call.arg[2]
     IN  call' = Return(<<SYSTEM_VERSION(a[1], a[2], a[3]),
                          SYSTEM_VERSION(b[1], b[2], b[3])>>)
  /\ UNCHANGED <<clockVars, counterVars, raceVars>>

FirmVersionCall ==
  /\ Calling("osGetFirmVersion")
  /\ call' = Return(osGetFirmVersion(call.arg))
  /\ UNCHANGED <<clockVars, counterVars, raceVars>>

KernelVersionCall ==
  /\ Calling("osGetKernelVersion")
  /\ call' = Return(osGetKernelVersion(call.arg))
  /\ UNCHANGED <<clockVars, counterVars, raceVars>>

ConvertCall ==
  /\ Calling("osConvertOldLINEARMemToNew")
  /\ call' = Return(osConvertOldLINEARMemToNew(call.arg))
  /\ UNCHANGED <<clockVars, counterVars, raceVars>>

\* osGetMemRegionFree, with what its two inner calls returned.
MemRegionCall ==
  /\ Calling("osGetMemRegionFree")
  /\ LET a == call.arg
     IN  call' = Return([size |-> osGetMemRegionSize(a.mem, a.region),
                         used |-> osGetMemRegionUsed(a.systemInfo, a.region),
                         free |-> osGetMemRegionFree(a.mem, a.systemInfo, a.region)])
  /\ UNCHANGED <<clockVars, counterVars, raceVars>>

WifiStrengthCall ==
  /\ Calling("osGetWifiStrength")
  /\ call' = Return(osGetWifiStrength(call.arg))
  /\ UNCHANGED <<clockVars, counterVars, raceVars>>

ReadCall ==
  /\ Calling("osTickCounterRead")
  /\ call' = Return(osTickCounterRead(call.arg))
  /\ UNCHANGED <<clockVars, counterVars, raceVars>>

OsNext ==
  \/ VersionCall
  \/ FirmVersionCall
  \/ KernelVersionCall
  \/ ConvertCall
  \/ MemRegionCall
  \/ WifiStrengthCall
  \/ ReadCall

OsSpec == OsInit /\ [][OsNext]_vars

-----------------------------------------------------------------------------
(* Properties of the single calls.                                         *)

\* The double 1000.0.
Thousand == IntToDouble(1000)

\* C3, as stated: a counter whose elapsed is 268,111,856 ticks (one second
\* of the ARM11 clock) reads as exactly 1000 milliseconds.
C3_ReadsExactlyThousand ==
  (Returned("osTickCounterRead") /\ call.arg.elapsed = NatToU64(268111856))
    => call.ret = Thousand

\* C3, amended: SYSCLOCK_ARM11 is 268,111,856; elapsed = 0 reads as 0; and
\* elapsed = 268,111,856 reads as 1000 milliseconds to within the rounding
\* of double arithmetic: the double next below 1000.0 (999.9999999999999),
\* since 268111.856 has no exact double.
C3_ReadsThousandRounded ==
  /\ SYSCLOCK_ARM11 = 268111856
  /\ Returned("osTickCounterRead")
       => /\ call.arg.elapsed = U64Zero => call.ret = DoubleZero
          /\ call.arg.elapsed = NatToU64(268111856)
               => /\ call.ret[2] = Thousand[2]
                  /\ SigInc(call.ret[1]) = Thousand[1]

\* One second of ticks was read, and came out next to 1000.0 but not on it.
C3_Witness ==
  /\ Returned("osTickCounterRead")
  /\ call.arg.elapsed = NatToU64(268111856)
  /\ call.ret # Thousand
  /\ SigInc(call.ret[1]) = Thousand[1]

\* C6: an address in the old linear range comes back at the same offset in
\* the new range (0x14xxxxxx as 0x30xxxxxx, up to 0x1Bxxxxxx as 0x37xxxxxx),
\* an address in the new range comes back unchanged, any other address
\* comes back as 0; the two ranges do not overlap, and converting the result
\* again changes nothing.
C6_ConvertPartition ==
  Returned("osConvertOldLINEARMemToNew") =>
    LET v     == call.arg
        r     == call.ret
        inOld == InRange(v, OS_OLD_FCRAM_VADDR, OS_OLD_FCRAM_SIZE)
        inNew == InRange(v, OS_FCRAM_VADDR, OS_FCRAM_SIZE)
    IN  /\ ~(inOld /\ inNew)
        /\ inOld => /\ Sub(r, NatToU32(OS_FCRAM_VADDR))
                         = Sub(v, NatToU32(OS_OLD_FCRAM_VADDR))
                    /\ r[1] = v[1]
                    /\ r[2] = v[2] + \H1C00
                    /\ r[2] \div 256 \in \H30..\H37
        /\ inNew => r = v
        /\ (~inOld /\ ~inNew) => r = U32Zero
        /\ osConvertOldLINEARMemToNew(r) = r

\* An address inside the old range was converted.
C6_Witness ==
  /\ Returned("osConvertOldLINEARMemToNew")
  /\ call.arg = NatToU32(\H14ABCDEF)
  /\ call.ret = NatToU32(\H30ABCDEF)

\* C7: osGetWifiStrength returns a value in 0..3 whatever the byte at
\* 0x1FF81066 holds.
C7_WifiStrengthInRange ==
  Returned("osGetWifiStrength") => call.ret \in 0..3

\* C9: the free count is (size - used) mod 2^32, the size of MEMREGION_ALL
\* is the sum mod 2^32 of the three words from 0x1FF80040 and the size of
\* any other region its own word, used is the low 32 bits of what the
\* kernel reports; and when used <= size, free <= size and free + used =
\* size without wrapping.
C9_MemRegionFree ==
  Returned("osGetMemRegionFree") =>
    LET a    == call.arg
        r    == call.ret
        app  == a.mem[\H1FF80040]
        sys  == a.mem[\H1FF80044]
        base == a.mem[\H1FF80048]
        info == a.systemInfo[a.region]
    IN  /\ r.size = CASE a.region = MEMREGION_ALL -> Add(Add(app, sys), base)
                      [] a.region = MEMREGION_APPLICATION -> app
                      [] a.region = MEMREGION_SYSTEM -> sys
                      [] a.region = MEMREGION_BASE -> base
        /\ r.used = <<info[1], info[2]>>
        /\ r.free = Sub(r.size, r.used)
        /\ Add(r.free, r.used) = r.size
        /\ LessEq(r.used, r.size)
             => (LessEq(r.free, r.size) /\ AddCarry(r.free, r.used) = 0)

\* The whole memory was asked for: three regions of 64 MiB, 16 MiB in use.
C9_Witness ==
  /\ Returned("osGetMemRegionFree")
  /\ call.arg.region = MEMREGION_ALL
  /\ call.ret.size = NatToU32(\H0C000000)
  /\ call.ret.used = NatToU32(\H01000000)
  /\ call.ret.free = NatToU32(\H0B000000)

LexLess(a, b) ==
  \/ a[1] < b[1]
  \/ a[1] = b[1] /\ a[2] < b[2]
  \/ a[1] = b[1] /\ a[2] = b[2] /\ a[3] < b[3]

\* C10: a packed version unpacks to its major, minor and revision, its low
\* 8 bits are zero, two packed versions compare as unsigned numbers the way
\* their (major, minor, revision) compare lexicographically; and the FIRM
\* and kernel versions are the words read with the low 8 bits cleared.
C10_VersionPacking ==
  /\ Returned("SYSTEM_VERSION") =>
       LET a  == call.arg[1]
           b  == call.arg[2]
           pa == call.ret[1]
           pb == call.ret[2]
       IN  /\ \A x \in {<<a, pa>>, <<b, pb>>} :
                /\ GET_VERSION_MAJOR(x[2]) = NatToU32(x[1][1])
                /\ GET_VERSION_MINOR(x[2]) = NatToU32(x[1][2])
                /\ GET_VERSION_REVISION(x[2]) = NatToU32(x[1][3])
                /\ x[2][1] % 256 = 0
           /\ Less(pa, pb) <=> LexLess(a, b)
           /\ pa = pb <=> a = b
  /\ Returned("osGetFirmVersion") =>
       /\ call.ret[1] % 256 = 0
       /\ Shr(call.ret, 8) = Shr(call.arg[FirmVersionAddr], 8)
  /\ Returned("osGetKernelVersion") =>
       /\ call.ret[1] % 256 = 0
       /\ Shr(call.ret, 8) = Shr(call.arg[KernelVersionAddr], 8)

\* Two versions with components on both sides of the sign bit were packed,
\* and the one with the larger major version is the larger number.
C10_Witness ==
  /\ Returned("SYSTEM_VERSION")
  /\ call.arg = <<<<255, 127, 128>>, <<128, 255, 0>>>>
  /\ call.ret[1] = <<\H8000, \HFF7F>>
  /\ Less(call.ret[2], call.ret[1])

====
